---------------------------- MODULE Spec2Model ----------------------------
(* A model of the asynchronous GitHub Verilog scraper (src/src/scrapeAll.py): *)
(* the semaphore that bounds outstanding HTTP operations, fetch_json, the    *)
(* recursive directory walk, the upload of one file with its retry loop, and *)
(* the driver that processes the found repositories one after another.       *)
(* Strings are sequences of one-character strings, file contents sequences   *)
(* of bytes.                                                                 *)
EXTENDS Integers, Sequences, FiniteSets, TLC

VARIABLES
    tree,          \* the source forest: node id -> entry (fixed by Init)
    pages,         \* what the search API answers, page by page (fixed by Init)
    capacity,      \* the value the semaphore was created with
    semaphore,     \* free permits (asyncio.Semaphore's counter)
    pc,            \* task id -> position; task 0 is main(), task n > 0 the coroutine of node n
    held,          \* task id -> permits the task holds
    loc,           \* task id -> the coroutine's local variables
    hist,          \* task id -> what the coroutine has done so far (history)
    page,          \* search_verilog_repos: the page being fetched
    repositories,  \* main: the repositories found
    ridx,          \* main: index of the repository being processed
    branch,        \* process_repo: default_branch of the current repository
    dest,          \* the target repository: destination path -> [content, sha]
    outcome,       \* node id -> how its upload ended in this run
    prev,          \* dest at the end of the previous run
    run,           \* number of the current run of main()
    faults,        \* some response so far was a failure, or a foreign writer wrote
    external,      \* writes made so far by writers other than this program
    probe          \* two FileTasks and their destination paths (path specification)

vars == <<tree, pages, capacity, semaphore, pc, held, loc, hist, page,
          repositories, ridx, branch, dest, outcome, prev, run, faults,
          external, probe>>

-----------------------------------------------------------------------------
(* Program constants *)

CONCURRENT_REQUESTS == 5
MAX_PAGES == 10
max_retries == 3
InitialRetryDelay == 1
BackoffFactor == 2
NoSha == 0

(* Bounds of the model *)

MaxRuns == 2
MaxExternal == 1
MaxPool == 2

-----------------------------------------------------------------------------
(* Strings *)

Slash == "/"
Underscore == "_"

RECURSIVE Replace(_, _, _)
Replace(s, old, new) ==
    IF s = <<>> THEN <<>>
    ELSE <<IF Head(s) = old THEN new ELSE Head(s)>> \o Replace(Tail(s), old, new)

RECURSIVE LastIndexOf(_, _)
LastIndexOf(s, c) ==
    IF s = <<>> THEN 0
    ELSE IF s[Len(s)] = c THEN Len(s)
    ELSE LastIndexOf(SubSeq(s, 1, Len(s) - 1), c)

RECURSIVE RStrip(_, _)
RStrip(s, c) ==
    IF s # <<>> /\ s[Len(s)] = c THEN RStrip(SubSeq(s, 1, Len(s) - 1), c) ELSE s

\* os.path.dirname (posixpath): the head up to the last slash, trailing slashes
\* stripped unless the head is slashes only.
Dirname(p) ==
    LET head == SubSeq(p, 1, LastIndexOf(p, Slash))
    IN  IF head # <<>> /\ RStrip(head, Slash) # <<>> THEN RStrip(head, Slash) ELSE head

Basename(p) == SubSeq(p, LastIndexOf(p, Slash) + 1, Len(p))

EndsWith(s, suffix) ==
    /\ Len(s) >= Len(suffix)
    /\ SubSeq(s, Len(s) - Len(suffix) + 1, Len(s)) = suffix

DotV == <<".", "v">>

VerilogData == <<"v", "e", "r", "i", "l", "o", "g", "_", "d", "a", "t", "a">>

RepoDir(repo_full_name) == Replace(repo_full_name, Slash, Underscore)

TargetPath(repo_full_name, file_path, file_name) ==
    LET repo_dir == RepoDir(repo_full_name)
        relative_dir == Dirname(file_path)
    IN  IF relative_dir # <<>>
        THEN VerilogData \o <<Slash>> \o repo_dir \o <<Slash>> \o relative_dir
                         \o <<Slash>> \o file_name
        ELSE VerilogData \o <<Slash>> \o repo_dir \o <<Slash>> \o file_name

-----------------------------------------------------------------------------
(* base64: three bytes make four 6-bit symbols; Pad fills the last group *)

Pad == 64

RECURSIVE B64Encode(_)
B64Encode(bs) ==
    IF bs = <<>> THEN <<>>
    ELSE IF Len(bs) = 1
    THEN <<bs[1] \div 4, (bs[1] % 4) * 16, Pad, Pad>>
    ELSE IF Len(bs) = 2
    THEN <<bs[1] \div 4, ((bs[1] % 4) * 16) + (bs[2] \div 16), (bs[2] % 16) * 4, Pad>>
    ELSE <<bs[1] \div 4, ((bs[1] % 4) * 16) + (bs[2] \div 16),
           ((bs[2] % 16) * 4) + (bs[3] \div 64), bs[3] % 64>>
         \o B64Encode(SubSeq(bs, 4, Len(bs)))

RECURSIVE B64Decode(_)
B64Decode(cs) ==
    IF Len(cs) < 4 THEN <<>>
    ELSE LET b1 == (cs[1] * 4) + (cs[2] \div 16)
             b2 == ((cs[2] % 16) * 16) + (cs[3] \div 4)
             b3 == ((cs[3] % 4) * 64) + cs[4]
         IN  IF cs[3] = Pad THEN <<b1>>
             ELSE IF cs[4] = Pad THEN <<b1, b2>>
             ELSE <<b1, b2, b3>> \o B64Decode(SubSeq(cs, 5, Len(cs)))

-----------------------------------------------------------------------------
(* The source forest and the search results the runs are checked on *)

RepoAB == <<"a", "/", "b">>
RepoCD == <<"c", "/", "d">>
NameX == <<"x", ".", "v">>
NameY == <<"y", ".", "v">>

Dir(repo, parent, name) ==
    [repo |-> repo, parent |-> parent, type |-> "dir", name |-> name, bytes |-> <<>>]

File(repo, parent, name, bytes) ==
    [repo |-> repo, parent |-> parent, type |-> "file", name |-> name, bytes |-> bytes]

\* a/b: x.v beside a directory d that holds two files that are no Verilog files;
\* c/d: a directory e that holds y.v and another file, beside a file that is
\* no Verilog file.
TreeSmall ==
    << Dir(RepoAB, 0, <<>>),
       File(RepoAB, 1, NameX, <<77>>),
       Dir(RepoAB, 1, <<"d">>),
       File(RepoAB, 3, <<"v">>, <<1>>),
       Dir(RepoCD, 0, <<>>),
       Dir(RepoCD, 5, <<"e">>),
       File(RepoCD, 6, NameY, <<77, 97, 110, 255>>),
       File(RepoCD, 5, <<"m">>, <<2>>),
       File(RepoCD, 6, <<"n">>, <<3>>),
       File(RepoAB, 3, <<"w">>, <<4>>) >>

\* a/b: six empty directories, more listings than there are permits.
TreeWide ==
    << Dir(RepoAB, 0, <<>>),
       Dir(RepoAB, 1, <<"p">>), Dir(RepoAB, 1, <<"q">>), Dir(RepoAB, 1, <<"r">>),
       Dir(RepoAB, 1, <<"s">>), Dir(RepoAB, 1, <<"t">>), Dir(RepoAB, 1, <<"u">>) >>

\* a/b: one empty directory d and nothing else.
TreeChain ==
    << Dir(RepoAB, 0, <<>>), Dir(RepoAB, 1, <<"d">>) >>

\* a/b: x.v and nothing else.
TreeFile ==
    << Dir(RepoAB, 0, <<>>), File(RepoAB, 1, NameX, <<77>>) >>

\* a/b: one file that is no Verilog file and nothing else.
TreeLeaf ==
    << Dir(RepoAB, 0, <<>>), File(RepoAB, 1, <<"v">>, <<1>>) >>

Configs ==
    { [tree |-> TreeSmall, pages |-> << <<RepoAB>>, <<RepoCD>> >>],
      [tree |-> TreeChain, pages |-> << <<RepoAB>> >>],
      [tree |-> TreeFile, pages |-> << <<RepoAB>> >>],
      [tree |-> TreeLeaf, pages |-> << <<RepoAB>> >>] }

\* the wide tree, for the runs in which more listings are ready than permits exist
ConfigWide == [tree |-> TreeWide, pages |-> << <<RepoAB>> >>]

Nodes == 1..Len(tree)
Tasks == 0..Len(tree)
Main == 0

RECURSIVE PathOf(_, _)
PathOf(t, n) ==
    IF t[n].parent = 0 THEN t[n].name
    ELSE IF t[t[n].parent].parent = 0 THEN t[n].name
    ELSE PathOf(t, t[n].parent) \o <<Slash>> \o t[n].name

IsVerilog(entry) == entry.type = "file" /\ EndsWith(entry.name, DotV)

IsUpload(t, n) == t[n].parent # 0 /\ IsVerilog(t[n])

IsWalk(t, n) == t[n].type = "dir"

ChildSet(t, n) == {m \in 1..Len(t) : t[m].parent = n}

RECURSIVE SeqOfSet(_)
SeqOfSet(S) ==
    IF S = {} THEN <<>>
    ELSE LET m == CHOOSE x \in S : \A y \in S : x <= y
         IN  <<m>> \o SeqOfSet(S \ {m})

\* The entries the contents API lists for directory n, in its order.
Entries(t, n) == SeqOfSet(ChildSet(t, n))

RootOf(t, repo) == CHOOSE n \in 1..Len(t) : t[n].parent = 0 /\ t[n].repo = repo

DestOf(t, n) == TargetPath(t[n].repo, PathOf(t, n), t[n].name)

DestPaths(t) == {DestOf(t, n) : n \in {m \in 1..Len(t) : IsUpload(t, m)}}

RECURSIVE Descendants(_, _)
Descendants(t, n) ==
    ChildSet(t, n) \cup UNION {Descendants(t, m) : m \in ChildSet(t, n)}

-----------------------------------------------------------------------------
(* Positions *)

AcquirePcs == {"search_acq", "branch_acq", "ls_acq", "dl_acq", "lk_acq", "put_acq"}

\* positions at which an HTTP request of the task is outstanding
HttpPcs == {"search_get", "branch_get", "ls_get", "dl_get", "lk_get", "put", "rf_get"}

InFlight == {t \in Tasks : pc[t] \in HttpPcs}

Holders == {t \in Tasks : held[t] > 0}

LocInit ==
    [ret |-> "pending", data |-> <<>>, content |-> <<>>, encoded |-> <<>>,
     existing_file |-> FALSE, sha |-> NoSha, attempt |-> 0, retry_delay |-> 0]

HistInit ==
    [resp |-> "none", lookup |-> "none", puts |-> <<>>, sent |-> <<>>,
     slept |-> <<>>, refetched |-> <<>>, shape |-> "none", starts |-> 0]

NoFile == [content |-> <<>>, sha |-> NoSha]

Foreign == <<7>>

-----------------------------------------------------------------------------
(* The semaphore *)

\* mutant: acquire() never waits
CanAcquireAlways == TRUE

CanAcquire == semaphore > 0

\* entering "async with semaphore"
Acquire(t) ==
    /\ CanAcquire
    /\ semaphore' = semaphore - 1
    /\ held' = [held EXCEPT ![t] = @ + 1]

\* mutant: the permit is taken with a bare acquire() and never given back
ReleaseNothing(t) == UNCHANGED <<semaphore, held>>

\* leaving "async with semaphore", by whatever way the block is left
Release(t) ==
    /\ semaphore' = semaphore + 1
    /\ held' = [held EXCEPT ![t] = @ - 1]

-----------------------------------------------------------------------------
(* fetch_json: the body on status 200, None on any other status and on an exception *)

FetchResponses == {"ok", "status", "exc"}

\* mutant: the body is parsed whatever the status
FetchJsonResultAnyStatus(r, body) ==
    IF r \in {"ok", "status"} THEN [ret |-> "body", data |-> body]
    ELSE [ret |-> "None", data |-> <<>>]

\* mutant: no "except Exception": an exception leaves fetch_json
FetchJsonResultUncaught(r, body) ==
    IF r = "ok" THEN [ret |-> "body", data |-> body]
    ELSE IF r = "status" THEN [ret |-> "None", data |-> <<>>]
    ELSE [ret |-> "raised", data |-> <<>>]

FetchJsonResult(r, body) ==
    IF r = "ok" THEN [ret |-> "body", data |-> body]
    ELSE [ret |-> "None", data |-> <<>>]

Failed(r) == r # "ok"

-----------------------------------------------------------------------------
(* search_verilog_repos and main *)

cfgvars == <<tree, pages, capacity, probe>>
mainvars == <<page, repositories, ridx, branch>>
storevars == <<dest, outcome, prev, run, external>>

\* "for repo in repositories": the first repository, or the end of main
StartRepos(repos) ==
    IF repos = <<>>
    THEN /\ pc' = [pc EXCEPT ![Main] = "finished"]
         /\ ridx' = 0
    ELSE /\ pc' = [pc EXCEPT ![Main] = "branch_acq"]
         /\ ridx' = 1

SearchAcquire ==
    /\ pc[Main] = "search_acq"
    /\ Acquire(Main)
    /\ pc' = [pc EXCEPT ![Main] = "search_get"]
    /\ UNCHANGED <<cfgvars, mainvars, storevars, faults, loc, hist>>

SearchRespond(r) ==
    LET items == IF page <= Len(pages) THEN pages[page] ELSE <<>>
        res == FetchJsonResult(r, items)
    IN  /\ pc[Main] = "search_get"
        /\ Release(Main)
        /\ hist' = [hist EXCEPT ![Main].resp = r]
        /\ loc' = [loc EXCEPT ![Main].ret = res.ret, ![Main].data = res.data]
        /\ faults' = (faults \/ Failed(r))
        /\ IF res.ret = "raised"
           THEN /\ pc' = [pc EXCEPT ![Main] = "crashed"]
                /\ UNCHANGED <<repositories, ridx>>
           ELSE IF res.ret = "None" \/ res.data = <<>>
           THEN /\ StartRepos(repositories)
                /\ UNCHANGED repositories
           ELSE /\ repositories' = repositories \o res.data
                /\ pc' = [pc EXCEPT ![Main] = "search_sleep"]
                /\ UNCHANGED ridx
        /\ UNCHANGED <<cfgvars, page, branch, storevars>>

SearchSleepDone ==
    /\ pc[Main] = "search_sleep"
    /\ IF page < MAX_PAGES
       THEN /\ page' = page + 1
            /\ pc' = [pc EXCEPT ![Main] = "search_acq"]
            /\ UNCHANGED ridx
       ELSE /\ StartRepos(repositories)
            /\ UNCHANGED page
    /\ UNCHANGED <<cfgvars, repositories, branch, storevars, faults, loc, hist,
                   semaphore, held>>

DefaultBranch == "main"
FallbackBranch == "master"

BranchAcquire ==
    /\ pc[Main] = "branch_acq"
    /\ Acquire(Main)
    /\ pc' = [pc EXCEPT ![Main] = "branch_get"]
    /\ UNCHANGED <<cfgvars, mainvars, storevars, faults, loc, hist>>

\* get_repo_default_branch returns, and process_repo calls the walk of the root
BranchRespond(r) ==
    LET res == FetchJsonResult(r, <<DefaultBranch>>)
        root == RootOf(tree, repositories[ridx])
    IN  /\ pc[Main] = "branch_get"
        /\ Release(Main)
        /\ hist' = [hist EXCEPT ![Main].resp = r]
        /\ loc' = [loc EXCEPT ![Main].ret = res.ret, ![Main].data = res.data]
        /\ faults' = (faults \/ Failed(r))
        /\ branch' = IF res.ret = "body" THEN res.data[1] ELSE FallbackBranch
        /\ pc' = IF res.ret = "raised"
                 THEN [pc EXCEPT ![Main] = "crashed"]
                 ELSE [pc EXCEPT ![Main] = "walk_wait", ![root] = "ls_acq"]
        /\ UNCHANGED <<cfgvars, page, repositories, ridx, storevars>>

\* mutant: the walk of the repository is started and not awaited
ProcessRepoNotAwaited(root) == TRUE

\* "await get_verilog_files_from_repo(...)" in process_repo has returned or raised
ProcessRepoAwaited(root) == pc[root] \in {"done", "raised"}

\* process_repo returns: its finished coroutines are gone and main sleeps before
\* the next repository; an exception of the walk would end main
WalkReturned ==
    LET root == RootOf(tree, repositories[ridx])
        gone == {t \in Nodes : pc[t] = "done"}
    IN  /\ pc[Main] = "walk_wait"
        /\ ProcessRepoAwaited(root)
        /\ pc' = [t \in Tasks |->
                    IF t = Main THEN (IF pc[root] = "raised" THEN "crashed" ELSE "repo_sleep")
                    ELSE IF t \in gone THEN "idle"
                    ELSE pc[t]]
        /\ loc' = [t \in Tasks |-> IF t \in gone THEN LocInit ELSE loc[t]]
        /\ hist' = [t \in Tasks |-> IF t \in gone THEN HistInit ELSE hist[t]]
        /\ outcome' = [n \in Nodes |-> IF n \in gone THEN "none" ELSE outcome[n]]
        /\ UNCHANGED <<cfgvars, mainvars, dest, prev, run, external, faults,
                       semaphore, held>>

RepoSleepDone ==
    /\ pc[Main] = "repo_sleep"
    /\ IF ridx < Len(repositories)
       THEN /\ ridx' = ridx + 1
            /\ pc' = [pc EXCEPT ![Main] = "branch_acq"]
       ELSE /\ pc' = [pc EXCEPT ![Main] = "finished"]
            /\ UNCHANGED ridx
    /\ UNCHANGED <<cfgvars, page, repositories, branch, storevars, faults, loc,
                   hist, semaphore, held>>

\* after a run in which nothing failed, the program is started again on the same
\* sources
Rerun ==
    /\ pc[Main] = "finished"
    /\ run < MaxRuns
    /\ ~faults
    /\ run' = run + 1
    /\ prev' = dest
    /\ page' = 1
    /\ repositories' = <<>>
    /\ ridx' = 0
    /\ branch' = "unset"
    /\ pc' = [pc EXCEPT ![Main] = "search_acq"]
    /\ loc' = [loc EXCEPT ![Main] = LocInit]
    /\ hist' = [hist EXCEPT ![Main] = HistInit]
    /\ UNCHANGED <<cfgvars, dest, outcome, external, faults, semaphore, held>>

-----------------------------------------------------------------------------
(* get_verilog_files_from_repo *)

\* what the contents API answers with status 200: a list of entries, or a single
\* entry object
ListBodies(n) ==
    {[dict |-> FALSE, v |-> Entries(tree, n)]}
    \cup {[dict |-> TRUE, v |-> e] : e \in {m \in ChildSet(tree, n) : Cardinality(ChildSet(tree, n)) = 1}}

\* mutant: a single entry object is skipped instead of wrapped
NormalizeListsOnly(body) == IF body.dict THEN <<>> ELSE body.v

\* "if isinstance(data, dict): data = [data]"
Normalize(body) == IF body.dict THEN <<body.v>> ELSE body.v

\* mutant: the ".v" test is missing, every file is uploaded
StartPcAnyFile(entry) ==
    IF entry.type = "dir" THEN "ls_acq" ELSE "dl_acq"

\* the coroutine started for one entry of a listing: none for other entries
StartPc(entry) ==
    IF entry.type = "dir" THEN "ls_acq"
    ELSE IF IsVerilog(entry) THEN "dl_acq"
    ELSE "idle"

\* the entries of a listing for which a task was appended to "tasks"
Spawned(data) == {data[i] : i \in {j \in 1..Len(data) : StartPc(tree[data[j]]) # "idle"}}

ListAcquire(n) ==
    /\ pc[n] = "ls_acq"
    /\ Acquire(n)
    /\ pc' = [pc EXCEPT ![n] = "ls_get"]
    /\ UNCHANGED <<cfgvars, mainvars, storevars, faults, loc, hist>>

\* fetch_json returns to the walk, which starts a task per entry and awaits them
ListRespond(n, r, body) ==
    LET res == FetchJsonResult(r, body)
        data == IF res.ret = "body" THEN Normalize(res.data) ELSE <<>>
        tasks == Spawned(data)
    IN  /\ pc[n] = "ls_get"
        /\ Release(n)
        /\ hist' = [t \in Tasks |->
                      IF t = n
                      THEN [hist[t] EXCEPT !.resp = r,
                                           !.shape = IF r # "ok" THEN "none"
                                                     ELSE IF body.dict THEN "dict"
                                                     ELSE "list"]
                      ELSE IF t \in tasks THEN [hist[t] EXCEPT !.starts = @ + 1]
                      ELSE hist[t]]
        /\ loc' = [loc EXCEPT ![n].ret = res.ret, ![n].data = data]
        /\ faults' = (faults \/ Failed(r))
        /\ pc' = [t \in Tasks |->
                    IF t = n
                    THEN IF res.ret = "None" THEN "done"
                         ELSE IF res.ret = "raised" THEN "raised"
                         ELSE IF tasks # {} THEN "gather"
                         ELSE "pace"
                    ELSE IF t \in tasks THEN StartPc(tree[t])
                    ELSE pc[t]]
        /\ UNCHANGED <<cfgvars, mainvars, storevars>>

\* mutant: the tasks are started and not awaited
GatheredAtOnce(tasks) == TRUE

\* "await asyncio.gather(*tasks)" returns when every task of the level is done
Gathered(tasks) == \A t \in tasks : pc[t] = "done"

\* gather returns, or raises the exception of a task that raised
GatherDone(n) ==
    /\ pc[n] = "gather"
    /\ IF \E t \in Spawned(loc[n].data) : pc[t] = "raised"
       THEN pc' = [pc EXCEPT ![n] = "raised"]
       ELSE /\ Gathered(Spawned(loc[n].data))
            /\ pc' = [pc EXCEPT ![n] = "pace"]
    /\ UNCHANGED <<cfgvars, mainvars, storevars, faults, loc, hist, semaphore, held>>

\* the 0.5 s sleep at the end of the walk is over
PaceDone(n) ==
    /\ pc[n] = "pace"
    /\ pc' = [pc EXCEPT ![n] = "done"]
    /\ UNCHANGED <<cfgvars, mainvars, storevars, faults, loc, hist, semaphore, held>>

-----------------------------------------------------------------------------
(* The target repository, as the contents API shows it *)

\* what a GET of destination path p can answer
LookupResponses(p) ==
    (IF dest[p].sha # NoSha THEN {"200sha"} ELSE {"404"}) \cup {"200nosha", "500", "exc"}

LookupFailed(r) == r \notin {"200sha", "404"}

\* a PUT is accepted when the token sent is the one of the stored file (none for a
\* new file); it may always be answered 409, another failure status, or fail
PutResponses(p, sha) ==
    (IF dest[p].sha = sha THEN {IF sha = NoSha THEN "201" ELSE "200"} ELSE {})
    \cup {"409", "500", "exc"}

Stored(p, encoded) == [content |-> B64Decode(encoded), sha |-> dest[p].sha + 1]

-----------------------------------------------------------------------------
(* upload_verilog_file_to_target *)

DownloadAcquire(n) ==
    /\ pc[n] = "dl_acq"
    /\ Acquire(n)
    /\ pc' = [pc EXCEPT ![n] = "dl_get"]
    /\ UNCHANGED <<cfgvars, mainvars, storevars, faults, loc, hist>>

\* mutant: the status of the download is not looked at
DownloadedAnyStatus(r) == r \in {"ok", "status"}

\* the download gave the content: status 200 and no exception
Downloaded(r) == r = "ok"

\* the download is answered: the content is read and encoded, or the task returns
DownloadRespond(n, r) ==
    /\ pc[n] = "dl_get"
    /\ Release(n)
    /\ hist' = [hist EXCEPT ![n].resp = r]
    /\ faults' = (faults \/ Failed(r))
    /\ IF Downloaded(r)
       THEN /\ loc' = [loc EXCEPT ![n].content = tree[n].bytes,
                                  ![n].encoded = B64Encode(tree[n].bytes)]
            /\ pc' = [pc EXCEPT ![n] = "lk_acq"]
            /\ UNCHANGED outcome
       ELSE /\ pc' = [pc EXCEPT ![n] = "done"]
            /\ outcome' = [outcome EXCEPT ![n] = "download_failed"]
            /\ UNCHANGED loc
    /\ UNCHANGED <<cfgvars, mainvars, dest, prev, run, external>>

LookupAcquire(n) ==
    /\ pc[n] = "lk_acq"
    /\ Acquire(n)
    /\ pc' = [pc EXCEPT ![n] = "lk_get"]
    /\ UNCHANGED <<cfgvars, mainvars, storevars, faults, loc, hist>>

\* mutant: the body of the answer is parsed whatever the status
ExistingFileAnyStatus(r, token) ==
    IF r = "200sha" THEN [some |-> TRUE, sha |-> token]
    ELSE IF r = "exc" THEN [some |-> FALSE, sha |-> NoSha]
    ELSE [some |-> TRUE, sha |-> NoSha]

\* existing_file after the GET of the destination: the parsed body on status 200
ExistingFile(r, token) ==
    IF r = "200sha" THEN [some |-> TRUE, sha |-> token]
    ELSE IF r = "200nosha" THEN [some |-> TRUE, sha |-> NoSha]
    ELSE [some |-> FALSE, sha |-> NoSha]

\* mutant: the token found is not put into the payload
PayloadShaOmitted(existing) == NoSha

\* 'if existing_file and "sha" in existing_file: payload["sha"] = ...'
PayloadSha(existing) ==
    IF existing.some /\ existing.sha # NoSha THEN existing.sha ELSE NoSha

\* the destination lookup is answered: the payload is prepared, the retry loop starts
LookupRespond(n, r) ==
    LET existing == ExistingFile(r, dest[DestOf(tree, n)].sha)
    IN  /\ pc[n] = "lk_get"
        /\ r \in LookupResponses(DestOf(tree, n))
        /\ Release(n)
        /\ hist' = [hist EXCEPT ![n].lookup = r]
        /\ faults' = (faults \/ LookupFailed(r))
        /\ loc' = [loc EXCEPT ![n].existing_file = existing.some,
                              ![n].sha = PayloadSha(existing),
                              ![n].attempt = 1,
                              ![n].retry_delay = InitialRetryDelay]
        /\ pc' = [pc EXCEPT ![n] = "put_acq"]
        /\ UNCHANGED <<cfgvars, mainvars, storevars>>

\* one attempt of the loop: the permit is taken and the PUT is sent
PutAcquire(n) ==
    /\ pc[n] = "put_acq"
    /\ Acquire(n)
    /\ pc' = [pc EXCEPT ![n] = "put"]
    /\ hist' = [hist EXCEPT ![n].sent = Append(@, loc[n].sha)]
    /\ UNCHANGED <<cfgvars, mainvars, storevars, faults, loc>>

IsSuccess(status) == status \in {"200", "201"}

\* mutant: every failure status is retried like a conflict
IsConflictOrFailure(status) == status \in {"409", "500"}

IsConflict(status) == status = "409"

\* mutant: off by one, the last attempt is retried too
RetryAllowedOnLast(attempt) == attempt <= max_retries

\* "if attempt < max_retries", in the conflict branch and in the exception handler
RetryAllowed(attempt) == attempt < max_retries

\* "for attempt in range(1, max_retries + 1)" has another iteration
LoopContinues(attempt) == attempt < max_retries

\* mutant: the delay is not doubled
NextDelaySame(retry_delay) == retry_delay

NextDelay(retry_delay) == retry_delay * BackoffFactor

OutcomeOf(status) == IF status = "201" THEN "created" ELSE "updated"

\* mutant: the task returns without giving its permit back
FinishLeaking(n, result) ==
    /\ pc' = [pc EXCEPT ![n] = "done"]
    /\ outcome' = [outcome EXCEPT ![n] = result]
    /\ UNCHANGED <<semaphore, held>>

\* the task returns with the given outcome, leaving the semaphore block
Finish(n, result) ==
    /\ Release(n)
    /\ pc' = [pc EXCEPT ![n] = "done"]
    /\ outcome' = [outcome EXCEPT ![n] = result]

\* mutant: the re-fetch and the sleep are outside the semaphore block
RetryReleased(n) == Release(n)

\* the re-fetch and the sleep of a retry are inside the semaphore block of the
\* attempt: the permit stays with the task
RetryInsideBlock(n) == UNCHANGED <<semaphore, held>>

\* the PUT is answered, or raises
PutRespond(n, r) ==
    LET p == DestOf(tree, n)
    IN  /\ pc[n] = "put"
        /\ r \in PutResponses(p, loc[n].sha)
        /\ faults' = (faults \/ ~IsSuccess(r))
        /\ IF r = "exc"
           THEN IF RetryAllowed(loc[n].attempt)
                THEN /\ pc' = [pc EXCEPT ![n] = "backoff"]
                     /\ hist' = [hist EXCEPT ![n].puts = Append(@, r),
                                             ![n].slept = Append(@, loc[n].retry_delay)]
                     /\ RetryInsideBlock(n)
                     /\ UNCHANGED <<outcome, dest>>
                ELSE /\ Finish(n, "exception")
                     /\ hist' = [hist EXCEPT ![n].puts = Append(@, r)]
                     /\ UNCHANGED dest
           ELSE IF IsSuccess(r)
           THEN /\ Finish(n, OutcomeOf(r))
                /\ dest' = [dest EXCEPT ![p] = Stored(p, loc[n].encoded)]
                /\ hist' = [hist EXCEPT ![n].puts = Append(@, r)]
           ELSE IF IsConflict(r)
           THEN IF RetryAllowed(loc[n].attempt)
                THEN /\ pc' = [pc EXCEPT ![n] = "rf_get"]
                     /\ hist' = [hist EXCEPT ![n].puts = Append(@, r)]
                     /\ RetryInsideBlock(n)
                     /\ UNCHANGED <<outcome, dest>>
                ELSE /\ Finish(n, "conflict_exhausted")
                     /\ hist' = [hist EXCEPT ![n].puts = Append(@, r)]
                     /\ UNCHANGED dest
           ELSE /\ Finish(n, "permanently_failed")
                /\ hist' = [hist EXCEPT ![n].puts = Append(@, r)]
                /\ UNCHANGED dest
        /\ UNCHANGED <<cfgvars, mainvars, prev, run, external, loc>>

\* mutant: the token fetched after a conflict is not put into the payload
RefreshedShaIgnored(old, latest) == old

\* 'if latest_file and "sha" in latest_file: payload["sha"] = latest_file["sha"]'
RefreshedSha(old, latest) ==
    IF latest.some /\ latest.sha # NoSha THEN latest.sha ELSE old

\* after a conflict the destination is fetched again, under the permit of the
\* attempt, and the task goes to sleep
RefetchRespond(n, r) ==
    LET latest == ExistingFile(r, dest[DestOf(tree, n)].sha)
    IN  /\ pc[n] = "rf_get"
        /\ r \in LookupResponses(DestOf(tree, n))
        /\ faults' = (faults \/ LookupFailed(r))
        /\ loc' = [loc EXCEPT ![n].sha = RefreshedSha(@, latest)]
        /\ hist' = [hist EXCEPT
                      ![n].refetched = Append(@, [after |-> loc[n].attempt,
                                                  some |-> latest.some,
                                                  sha |-> latest.sha]),
                      ![n].slept = Append(@, loc[n].retry_delay)]
        /\ pc' = [pc EXCEPT ![n] = "backoff"]
        /\ UNCHANGED <<cfgvars, mainvars, storevars, semaphore, held>>

\* the backoff sleep is over: the delay doubles, "continue" leaves the semaphore
\* block and the next attempt begins
BackoffDone(n) ==
    /\ pc[n] = "backoff"
    /\ Release(n)
    /\ IF LoopContinues(loc[n].attempt)
       THEN /\ loc' = [loc EXCEPT ![n].retry_delay = NextDelay(@), ![n].attempt = @ + 1]
            /\ pc' = [pc EXCEPT ![n] = "put_acq"]
            /\ UNCHANGED outcome
       ELSE /\ loc' = [loc EXCEPT ![n].retry_delay = NextDelay(@)]
            /\ pc' = [pc EXCEPT ![n] = "done"]
            /\ outcome' = [outcome EXCEPT ![n] = "loop_ended"]
    /\ UNCHANGED <<cfgvars, mainvars, dest, prev, run, external, faults, hist>>

\* a writer other than this program commits to a destination path while an upload
\* to it is between its lookup and its end
ExternalWrite(p) ==
    /\ external < MaxExternal
    /\ \E n \in Nodes : /\ IsUpload(tree, n)
                        /\ DestOf(tree, n) = p
                        /\ pc[n] \in {"put_acq", "put", "rf_get", "backoff"}
    /\ external' = external + 1
    /\ dest' = [dest EXCEPT ![p] = [content |-> Foreign, sha |-> @.sha + 1]]
    /\ faults' = TRUE
    /\ UNCHANGED <<cfgvars, mainvars, outcome, prev, run, pc, held, semaphore,
                   loc, hist>>

-----------------------------------------------------------------------------
(* The specification of the pipeline *)

InitOf(c, n) ==
    /\ tree = c.tree
    /\ pages = c.pages
    /\ capacity = n
    /\ semaphore = n
    /\ pc = [t \in 0..Len(c.tree) |-> IF t = Main THEN "search_acq" ELSE "idle"]
    /\ held = [t \in 0..Len(c.tree) |-> 0]
    /\ loc = [t \in 0..Len(c.tree) |-> LocInit]
    /\ hist = [t \in 0..Len(c.tree) |-> HistInit]
    /\ page = 1
    /\ repositories = <<>>
    /\ ridx = 0
    /\ branch = "unset"
    /\ dest = [p \in DestPaths(c.tree) |-> NoFile]
    /\ outcome = [n2 \in 1..Len(c.tree) |-> "none"]
    /\ prev = [p \in DestPaths(c.tree) |-> NoFile]
    /\ run = 1
    /\ faults = FALSE
    /\ external = 0
    /\ probe = <<>>

Init == \E c \in Configs : InitOf(c, CONCURRENT_REQUESTS)

\* the steps of main and of the walks
RunWalks ==
    \/ SearchAcquire
    \/ \E r \in FetchResponses : SearchRespond(r)
    \/ SearchSleepDone
    \/ BranchAcquire
    \/ \E r \in FetchResponses : BranchRespond(r)
    \/ WalkReturned
    \/ RepoSleepDone
    \/ \E n \in Nodes : ListAcquire(n)
    \/ \E n \in Nodes : \E body \in ListBodies(n) : ListRespond(n, "ok", body)
    \/ \E n \in Nodes : \E r \in {"status", "exc"} : ListRespond(n, r, <<>>)
    \/ \E n \in Nodes : GatherDone(n)
    \/ \E n \in Nodes : PaceDone(n)

\* one run of main()
Run ==
    \/ RunWalks
    \/ \E n \in Nodes : DownloadAcquire(n)
    \/ \E n \in Nodes : \E r \in FetchResponses : DownloadRespond(n, r)
    \/ \E n \in Nodes : LookupAcquire(n)
    \/ \E n \in Nodes : \E r \in {"200sha", "404", "200nosha", "500", "exc"} : LookupRespond(n, r)
    \/ \E n \in Nodes : PutAcquire(n)
    \/ \E n \in Nodes : \E r \in {"200", "201", "409", "500", "exc"} : PutRespond(n, r)
    \/ \E n \in Nodes : \E r \in {"200sha", "404", "200nosha", "500", "exc"} : RefetchRespond(n, r)
    \/ \E n \in Nodes : BackoffDone(n)
    \/ \E p \in DOMAIN dest : ExternalWrite(p)

Next == Run \/ Rerun

Spec == Init /\ [][Next]_vars

\* one run with a semaphore of any size from 1 to MaxPool
InitPool == \E c \in Configs : \E n \in 1..MaxPool : InitOf(c, n)

SpecPool == InitPool /\ [][Run]_vars

\* one run over the wide tree, which holds directories only
InitWide == InitOf(ConfigWide, CONCURRENT_REQUESTS)

SpecWide == InitWide /\ [][RunWalks]_vars

\* the two repositories of TreeSmall with a single permit, for which the upload
\* and the walk of a level contend
InitFair ==
    \E c \in Configs : InitOf(c, IF c.tree = TreeSmall THEN 1 ELSE CONCURRENT_REQUESTS)

\* one run in which the event loop keeps resuming a coroutine that can go on:
\* every request is answered, every sleep ends, a free permit is handed out
SpecFair == InitFair /\ [][Run]_vars /\ WF_vars(Run)

-----------------------------------------------------------------------------
(* The destination path as a function of the FileTask *)

ProbeOwners == {<<"a">>, <<"a", "_", "b">>}
ProbeNames == {<<"b">>, <<"c">>, <<"b", "_", "c">>}
ProbeRepos == {o \o <<Slash>> \o m : o \in ProbeOwners, m \in ProbeNames}
ProbePaths == {NameX, <<"d", "/", "x", ".", "v">>, <<"d", "/", "y", ".", "v">>,
               <<"d", "/", "e", "/", "x", ".", "v">>}

\* the arguments the walk passes for a listed file: item["path"], item["name"]
FileTasks == {[repo |-> r, path |-> q, name |-> Basename(q)] : r \in ProbeRepos, q \in ProbePaths}

WithTarget(f) ==
    [repo |-> f.repo, path |-> f.path, name |-> f.name,
     target |-> TargetPath(f.repo, f.path, f.name)]

InitPath == InitOf([tree |-> TreeSmall, pages |-> <<>>], CONCURRENT_REQUESTS)

ComputeTargets ==
    /\ \E a \in FileTasks : \E b \in FileTasks : probe' = <<WithTarget(a), WithTarget(b)>>
    /\ UNCHANGED <<tree, pages, capacity, semaphore, pc, held, loc, hist, page,
                   repositories, ridx, branch, dest, outcome, prev, run, faults,
                   external>>

SpecPath == InitPath /\ [][ComputeTargets]_vars


-----------------------------------------------------------------------------
(* Properties *)

Uploads == {n \in Nodes : IsUpload(tree, n)}

Walks == {n \in Nodes : IsWalk(tree, n)}

SleepPcs == {"search_sleep", "repo_sleep", "pace", "backoff"}

Runnable(t) ==
    \/ pc[t] \in HttpPcs \cup SleepPcs
    \/ pc[t] \in AcquirePcs /\ semaphore > 0
    \/ pc[t] = "gather" /\ \A u \in Spawned(loc[t].data) : pc[u] = "done"
    \/ pc[t] = "walk_wait" /\ pc[RootOf(tree, repositories[ridx])] = "done"

\* C2: a task that requests a permit holds none, and whenever a task waits for a
\* permit some task can take a step, for every size of the semaphore.
C2_NoNestedAcquire ==
    /\ \A t \in Tasks : pc[t] \in AcquirePcs => held[t] = 0
    /\ (\E t \in Tasks : pc[t] \in AcquirePcs) => \E u \in Tasks : Runnable(u)

\* with one permit, an upload sleeps in its backoff holding it while a walk waits
C2_Witness ==
    /\ capacity = 1
    /\ semaphore = 0
    /\ \E t \in Tasks : \E u \in Tasks :
          pc[t] = "backoff" /\ held[t] = 1 /\ pc[u] = "ls_acq" /\ held[u] = 0

\* C3: FileTasks that differ in repository or in source path have different
\* destination paths.
C3_Injective ==
    probe # <<>> =>
        ((probe[1].repo # probe[2].repo \/ probe[1].path # probe[2].path)
            => probe[1].target # probe[2].target)

\* C4: in a run in which nothing fails a new file is created with the bytes of the
\* source; in the run after it the lookup finds the file, the write carries the
\* token of the stored file, the outcome is updated and the content stays the same.
C4_Idempotent ==
    \A n \in Uploads :
        LET p == DestOf(tree, n)
        IN  /\ (run = 1 /\ ~faults /\ pc[n] = "done")
                => /\ outcome[n] = "created"
                   /\ dest[p].content = tree[n].bytes
            /\ (run > 1 /\ ~faults /\ pc[n] \in {"put_acq", "put", "done"})
                => /\ prev[p].content = tree[n].bytes
                   /\ prev[p].sha # NoSha
                   /\ hist[n].lookup = "200sha"
                   /\ loc[n].sha = prev[p].sha
            /\ (run > 1 /\ ~faults /\ pc[n] = "done")
                => /\ hist[n].sent = <<prev[p].sha>>
                   /\ outcome[n] = "updated"
                   /\ dest[p].content = prev[p].content

\* the second clean run has uploaded a file
C4_Witness ==
    \E n \in Uploads : run = 2 /\ ~faults /\ pc[n] = "done" /\ outcome[n] = "updated"

\* C5: the first payload carries a token exactly when the lookup answered 200 with
\* a token; after a lookup that answered another status or raised, the payload has
\* no token, the file counts as new and the write is sent.
C5_FirstPayload ==
    \A n \in Uploads :
        hist[n].lookup # "none" =>
            /\ pc[n] \in {"put_acq", "put", "rf_get", "backoff", "done"}
            /\ (pc[n] = "done" => Len(hist[n].sent) >= 1)
            /\ Len(hist[n].sent) = 0 => (loc[n].sha # NoSha <=> hist[n].lookup = "200sha")
            /\ Len(hist[n].sent) >= 1 => (hist[n].sent[1] # NoSha <=> hist[n].lookup = "200sha")
            /\ hist[n].lookup \in {"404", "500", "exc"} => ~loc[n].existing_file

\* a write without a token is outstanding after a lookup that failed
C5_Witness ==
    \E n \in Uploads :
        hist[n].lookup = "exc" /\ pc[n] = "put" /\ hist[n].sent = <<NoSha>>

\* C6: when the first two writes are answered 409, the destination is fetched
\* again after each of them, a token so fetched is the one the next write
\* carries, and a third write answered 200 or 201 ends the task in success.
C6_ConflictsThenSuccess ==
    \A n \in Uploads :
        LET h == hist[n]
        IN  (Len(h.puts) >= 2 /\ h.puts[1] = "409" /\ h.puts[2] = "409") =>
                /\ Len(h.refetched) >= 1
                /\ h.refetched[1].after = 1
                /\ h.refetched[1].sha # NoSha => h.sent[2] = h.refetched[1].sha
                /\ pc[n] # "rf_get" => /\ Len(h.refetched) = 2
                                       /\ h.refetched[2].after = 2
                /\ Len(h.sent) >= 3 =>
                      (h.refetched[2].sha # NoSha => h.sent[3] = h.refetched[2].sha)
                /\ (Len(h.puts) = 3 /\ h.puts[3] \in {"200", "201"}) =>
                      /\ pc[n] = "done"
                      /\ outcome[n] \in {"created", "updated"}
                      /\ held[n] = 0

\* two conflicts, a token that changed in between, and success at the third write
C6_Witness ==
    \E n \in Uploads :
        /\ hist[n].puts = <<"409", "409", "200">>
        /\ hist[n].refetched[1].sha # NoSha
        /\ hist[n].sent[2] # hist[n].sent[1]
        /\ outcome[n] = "updated"

\* C7: no upload sends more than 3 writes; when all three are answered 409 the
\* task ends conflict-exhausted, having slept 1 and then 2 and fetched the
\* destination again twice, with no sleep and no fetch after the last attempt.
C7_ConflictExhausted ==
    \A n \in Uploads :
        /\ Len(hist[n].sent) <= 3
        /\ Len(hist[n].slept) <= 2
        /\ hist[n].puts = <<"409", "409", "409">> =>
              /\ pc[n] = "done"
              /\ outcome[n] = "conflict_exhausted"
              /\ hist[n].slept = <<1, 2>>
              /\ Len(hist[n].refetched) = 2
              /\ Len(hist[n].sent) = 3
              /\ held[n] = 0

\* an upload whose three writes were all answered 409
C7_Witness ==
    \E n \in Uploads :
        hist[n].puts = <<"409", "409", "409">> /\ outcome[n] = "conflict_exhausted"

\* the number of answers 409 among the first k answers
RECURSIVE Conflicts(_, _)
Conflicts(puts, k) ==
    IF k = 0 THEN 0
    ELSE Conflicts(puts, k - 1) + (IF puts[k] = "409" THEN 1 ELSE 0)

\* C8: a write answered with a status other than 200, 201 and 409 is the last
\* thing the task does: it ends permanently-failed, with no further write, no
\* fetch of the destination and no sleep after that answer.
C8_PermanentFailure ==
    \A n \in Uploads :
        \A k \in 1..Len(hist[n].puts) :
            hist[n].puts[k] = "500" =>
                /\ k = Len(hist[n].puts)
                /\ pc[n] = "done"
                /\ outcome[n] = "permanently_failed"
                /\ Len(hist[n].sent) = k
                /\ Len(hist[n].slept) = k - 1
                /\ Len(hist[n].refetched) = Conflicts(hist[n].puts, k - 1)
                /\ held[n] = 0

\* a failure status on the second attempt, after a conflict
C8_Witness ==
    \E n \in Uploads :
        hist[n].puts = <<"409", "500">> /\ outcome[n] = "permanently_failed"

FetchCallers == {Main} \cup Walks

\* C10: fetch_json returns the parsed body on status 200 and None on any other
\* status and on an exception, never anything else, and its caller holds no
\* permit once it has returned.
C10_FetchJson ==
    \A t \in FetchCallers :
        /\ loc[t].ret \in {"pending", "body", "None"}
        /\ hist[t].resp = "none" <=> loc[t].ret = "pending"
        /\ hist[t].resp = "ok" <=> loc[t].ret = "body"
        /\ hist[t].resp \in {"status", "exc"} <=> loc[t].ret = "None"
        /\ (t \in Walks /\ loc[t].ret = "body") => loc[t].data = Entries(tree, t)
        /\ (t \in Walks /\ loc[t].ret = "None") => pc[t] = "done"
        /\ pc[t] \notin {"search_get", "branch_get", "ls_get"} => held[t] = 0

\* a listing that raised: the walk got None and has returned, holding no permit
C10_Witness ==
    \E t \in Walks :
        hist[t].resp = "exc" /\ loc[t].ret = "None" /\ pc[t] = "done" /\ held[t] = 0

\* the ways an upload task ends without having written
FailedOutcomes == {"download_failed", "permanently_failed", "conflict_exhausted"}

\* a task that ended in a failure: a walk whose listing was absent, or an upload
FailedTask(t) ==
    \/ t \in Walks /\ pc[t] = "done" /\ loc[t].ret = "None"
    \/ t \in Uploads /\ outcome[t] \in FailedOutcomes

\* C11: no failure leaves a task as an exception: a walk whose listing is absent
\* and an upload that ends download-failed, permanently-failed or
\* conflict-exhausted have returned normally and hold no permit, no task and not
\* main has raised, and a walk that is past its gather finds every task of its
\* level, the failed ones and their siblings, returned.
C11_FailureContained ==
    /\ \A t \in Tasks : pc[t] \notin {"raised", "crashed"}
    /\ \A n \in Walks : hist[n].resp \in {"status", "exc"} => pc[n] = "done" /\ held[n] = 0
    /\ \A n \in Uploads : outcome[n] \in FailedOutcomes => pc[n] = "done" /\ held[n] = 0
    /\ \A d \in Walks :
          pc[d] \in {"pace", "done"} => \A t \in Spawned(loc[d].data) : pc[t] = "done"

\* a walk has returned with a listing, one task of its level failed and a sibling
\* of that task did its work
C11_Witness ==
    \E d \in Walks :
        /\ pc[d] = "done"
        /\ loc[d].ret = "body"
        /\ \E a, b \in Spawned(loc[d].data) :
              /\ a # b
              /\ FailedTask(a)
              /\ pc[b] = "done"
              /\ b \in Walks => loc[b].ret = "body"
              /\ b \in Uploads => outcome[b] \in {"created", "updated"}

\* C12: a walk that is past its gather, or has returned, has no descendant task
\* that is still running or still holds a permit.
C12_JoinBarrier ==
    \A d \in Walks :
        pc[d] \in {"pace", "done"} =>
            \A t \in Descendants(tree, d) : pc[t] \in {"idle", "done"} /\ held[t] = 0

\* a walk has returned whose directory holds a directory that holds an uploaded file
C12_Witness ==
    \E d \in Walks :
        /\ pc[d] = "done"
        /\ \E u \in Descendants(tree, d) \cap Uploads :
              /\ tree[u].parent # d
              /\ outcome[u] \in {"created", "updated"}
              /\ pc[tree[u].parent] = "done"

\* the tasks of the walk that have started and not returned, or hold a permit
ActiveNodes == {n \in Nodes : pc[n] \notin {"idle", "done"} \/ held[n] > 0}

\* C13: tasks exist for one repository at a time, the one main is waiting for, and
\* main asks for the default branch of a repository only when no task of the
\* repository before it is left.
C13_OneRepoAtATime ==
    /\ \A n \in Nodes :
          pc[n] # "idle" =>
              /\ ridx \in 1..Len(repositories)
              /\ tree[n].repo = repositories[ridx]
    /\ ActiveNodes # {} => pc[Main] = "walk_wait"
    /\ pc[Main] \in {"branch_acq", "branch_get"} =>
          \A n \in Nodes : pc[n] = "idle" /\ held[n] = 0

\* the second repository is being written to
C13_Witness ==
    /\ ridx = 2
    /\ \E n \in Uploads : tree[n].repo = repositories[2] /\ pc[n] = "put"

\* where the coroutine of a walk can be, and where that of an upload can be
WalkPcs == {"ls_acq", "ls_get", "gather", "pace", "done"}

UploadPcs ==
    {"dl_acq", "dl_get", "lk_acq", "lk_get", "put_acq", "put", "rf_get", "backoff", "done"}

\* entry e of a listing has got the one task the loop creates for it, or none
TaskFor(e) ==
    IF tree[e].type = "dir" THEN pc[e] \in WalkPcs /\ hist[e].starts = 1
    ELSE IF IsVerilog(tree[e]) THEN pc[e] \in UploadPcs /\ hist[e].starts = 1
    ELSE pc[e] = "idle" /\ hist[e].starts = 0

\* C14: a listing answered with a single entry object gives the walk the same data
\* as the list that holds that one entry, the walk does not raise, and the entry
\* gets the task a list entry gets: a walk for a directory, an upload for a file
\* ending in ".v", none otherwise.
C14_SingleEntry ==
    \A n \in Walks :
        hist[n].shape = "dict" =>
            /\ loc[n].ret = "body"
            /\ pc[n] \in {"gather", "pace", "done"}
            /\ Len(loc[n].data) = 1
            /\ loc[n].data = Entries(tree, n)
            /\ TaskFor(loc[n].data[1])

\* a walk whose listing was a single entry object has returned after the upload
\* of that entry wrote the file
C14_Witness ==
    \E n \in Walks :
        /\ hist[n].shape = "dict"
        /\ pc[n] = "done"
        /\ \E u \in Uploads : loc[n].data = <<u>> /\ outcome[u] = "created"

\* C15 as stated: the token sent on the attempt after a conflict is the one the
\* fetch of the destination made after that conflict returned, and none when that
\* fetch found no file or failed.
C15_FreshToken ==
    \A n \in Uploads :
        \A k \in 1..Len(hist[n].sent) :
            (k > 1 /\ hist[n].puts[k - 1] = "409") =>
                \E i \in 1..Len(hist[n].refetched) :
                    /\ hist[n].refetched[i].after = k - 1
                    /\ hist[n].sent[k] = hist[n].refetched[i].sha

\* C16: an upload whose download was answered with a status other than 200, or
\* raised, has returned at once: it ended download-failed with its permit given
\* back, it made no fetch of the destination, no write and no sleep, and the
\* destination file is as it was when the run began.
C16_DownloadAbsent ==
    \A n \in Uploads :
        hist[n].resp \in {"status", "exc"} =>
            /\ pc[n] = "done"
            /\ outcome[n] = "download_failed"
            /\ held[n] = 0
            /\ hist[n].lookup = "none"
            /\ hist[n].sent = <<>> /\ hist[n].puts = <<>>
            /\ hist[n].refetched = <<>> /\ hist[n].slept = <<>>
            /\ dest[DestOf(tree, n)] = prev[DestOf(tree, n)]

\* in a second run the download of a file stored by the first run failed
C16_Witness ==
    \E n \in Uploads :
        /\ hist[n].resp = "status"
        /\ pc[n] = "done"
        /\ run = 2
        /\ dest[DestOf(tree, n)].sha # NoSha

\* a walk that got a listing has created the task of every entry
Listed(d) == pc[d] \in {"gather", "pace", "done"} /\ loc[d].ret = "body"

\* every change of the destination is the successful write of an upload task to
\* its own path, or the commit of another writer
OnlyUploadsWrite ==
    dest' # dest =>
        \/ external' = external + 1
        \/ \E n \in Uploads :
              /\ pc[n] = "put" /\ pc'[n] = "done"
              /\ outcome'[n] \in {"created", "updated"}
              /\ \A p \in DOMAIN dest : p # DestOf(tree, n) => dest'[p] = dest[p]

\* C17: a walk that got a listing has started one walk for each directory entry
\* and one upload for each file entry ending in ".v", and no task for any other
\* entry; no task is started twice, no task exists for an entry whose directory
\* was not listed, and the destination changes only by the write of an upload.
C17_OneTaskPerEntry ==
    /\ [](\A d \in Walks : Listed(d) => \A e \in ChildSet(tree, d) : TaskFor(e))
    /\ [](\A n \in Nodes :
            /\ hist[n].starts <= 1
            /\ (tree[n].parent # 0 /\ ~Listed(tree[n].parent)) => pc[n] = "idle"
            /\ (n \notin Walks \cup Uploads) => pc[n] = "idle")
    /\ [][OnlyUploadsWrite]_vars

\* all listings of a repository succeeded: its walk has returned, the Verilog
\* file in a directory below the root was uploaded by its one task and the file
\* beside it that is no Verilog file got none
C17_Witness ==
    \E d \in Walks :
        /\ tree[d].parent = 0
        /\ pc[d] = "done"
        /\ \A w \in Descendants(tree, d) \cap Walks : loc[w].ret = "body"
        /\ \E u \in Descendants(tree, d) \cap Uploads :
              /\ tree[u].parent # d
              /\ hist[u].starts = 1
              /\ outcome[u] = "created"
        /\ \E o \in Descendants(tree, d) \ (Walks \cup Uploads) : pc[o] = "idle"

RECURSIVE SumHeld(_)
SumHeld(S) ==
    IF S = {} THEN 0
    ELSE LET t == CHOOSE x \in S : TRUE IN held[t] + SumHeld(S \ {t})

\* where a task is inside an "async with semaphore" block
InsideBlock == HttpPcs \cup {"backoff"}

\* C18: the permits held by tasks and the free permits add up to the size of the
\* semaphore; a task holds one permit exactly while it is inside a semaphore
\* block and none once it has returned; when the walk of a repository has
\* returned all permits are free.
C18_PermitConservation ==
    /\ semaphore + SumHeld(Tasks) = capacity
    /\ semaphore \in 0..capacity
    /\ \A t \in Tasks : held[t] = (IF pc[t] \in InsideBlock THEN 1 ELSE 0)
    /\ (pc[Main] = "walk_wait" /\ pc[RootOf(tree, repositories[ridx])] = "done")
          => semaphore = capacity
    /\ pc[Main] \in {"repo_sleep", "finished"} => semaphore = capacity

\* the walk of a repository has returned after an upload gave up on conflicts and
\* a listing raised, and all permits are free
C18_Witness ==
    /\ pc[Main] = "walk_wait"
    /\ pc[RootOf(tree, repositories[ridx])] = "done"
    /\ \E n \in Uploads : outcome[n] = "conflict_exhausted"
    /\ \E d \in Walks : hist[d].resp = "exc"
    /\ semaphore = capacity

\* the uploads that are between a failed write and the end of the sleep after it
Retrying == {n \in Uploads : pc[n] \in {"rf_get", "backoff"}}

\* C19: an upload keeps the permit of a failed write through the fetch of the
\* token and the sleep, and holds none when it asks for the permit of the next
\* attempt; while as many uploads sleep as there are permits no permit is free and
\* no other task has a request outstanding.
C19_PermitAcrossBackoff ==
    /\ \A n \in Retrying : held[n] = 1
    /\ \A n \in Uploads : pc[n] = "put_acq" => held[n] = 0
    /\ Cardinality(Retrying) = capacity =>
          /\ ~CanAcquire
          /\ \A t \in Tasks \ Retrying : held[t] = 0 /\ pc[t] \notin HttpPcs

\* as many uploads as there are permits sleep after a conflict and the fetch of
\* the token, and a walk waits for a permit
C19_Witness ==
    /\ Cardinality(Retrying) = capacity
    /\ \E n \in Retrying : pc[n] = "backoff" /\ Len(hist[n].refetched) = 1
    /\ \E t \in Walks : pc[t] = "ls_acq"

\* main has returned and no coroutine is left
AllDone ==
    /\ pc[Main] = "finished"
    /\ \A n \in Nodes : pc[n] = "idle" /\ held[n] = 0
    /\ semaphore = capacity

\* C20: when every request is answered, every sleep ends and free permits are
\* handed out, main finishes with every repository processed and no walk or
\* upload left, whatever the answers were, and no upload sends more than
\* max_retries writes.
C20_Termination ==
    /\ <>[]AllDone
    /\ [](\A n \in Uploads : Len(hist[n].sent) <= max_retries)
    /\ [](pc[Main] = "finished" => ridx = Len(repositories))

\* main has returned after two repositories, in a run in which a request failed
\* and a file was written
C20_Witness ==
    /\ AllDone
    /\ ridx = 2
    /\ faults
    /\ \E p \in DOMAIN dest : dest[p].sha # NoSha

=============================================================================
